---- MODULE Spec2Model ----
(***************************************************************************)
(* DynamicGaussians (src/freetimegs_finetune/_gaussians.py) and the        *)
(* temporal activity selection of src/freetimegs_finetune/_utils.py.       *)
(*                                                                         *)
(* Numbers.  A real number x is held as the integer x * Scale (binary      *)
(* fixed point, Scale = 2^12), so every grid value is an exact float32     *)
(* and float32 coercion is rounding to a 24-bit significand.  torch's      *)
(* exp / log / sigmoid are library functions, modelled by fixed-point      *)
(* series rounded to the grid.                                             *)
(***************************************************************************)
EXTENDS Integers, Sequences, FiniteSets, TLC

VARIABLES heap, disk, ret

vars == <<heap, disk, ret>>

-----------------------------------------------------------------------------
(* Fixed-point arithmetic                                                  *)

Scale == 2^12

Abs(x) == IF x < 0 THEN -x ELSE x

Sign(x) == IF x < 0 THEN -1 ELSE 1

\* n / d rounded to the nearest integer (d > 0), halves away from zero
RoundDiv(n, d) == Sign(n) * ((Abs(n) + d \div 2) \div d)

\* product and quotient of two grid values, rounded to the grid
Mul(a, b) == RoundDiv(a * b, Scale)

Div(a, b) == IF b < 0 THEN RoundDiv(-(a * Scale), -b) ELSE RoundDiv(a * Scale, b)

\* the largest k with 2^k <= v  (v >= 1)
RECURSIVE Log2Floor(_)
Log2Floor(v) == IF v < 2 THEN 0 ELSE 1 + Log2Floor(v \div 2)

\* Tensor.float(): round to the nearest value with a 24-bit significand,
\* ties to even
Float32(v) ==
    LET a == Abs(v)
        k == Log2Floor(a)
        q == 2^(k - 23)
        lo == (a \div q) * q
        r == a - lo
        up == IF 2 * r > q THEN TRUE
              ELSE IF 2 * r < q THEN FALSE
              ELSE (a \div q) % 2 = 1
    IN  IF a < 2^24 THEN v
        ELSE Sign(v) * (IF up THEN lo + q ELSE lo)

\* e and 1/e on the grid
EulerFx == RoundDiv(271828 * Scale, 100000)

InvEulerFx == RoundDiv(36788 * Scale, 100000)

Ln2Fx == RoundDiv(69315 * Scale, 100000)

\* exp(f) for 0 <= f < 1: Taylor series
ExpFrac(f) ==
    LET t1 == f
        t2 == RoundDiv(t1 * f, 2 * Scale)
        t3 == RoundDiv(t2 * f, 3 * Scale)
        t4 == RoundDiv(t3 * f, 4 * Scale)
        t5 == RoundDiv(t4 * f, 5 * Scale)
        t6 == RoundDiv(t5 * f, 6 * Scale)
        t7 == RoundDiv(t6 * f, 7 * Scale)
    IN  Scale + t1 + t2 + t3 + t4 + t5 + t6 + t7

RECURSIVE TimesEPow(_, _)
TimesEPow(v, k) ==
    IF k = 0 \/ v = 0 THEN v
    ELSE IF k > 0 THEN TimesEPow(Mul(v, EulerFx), k - 1)
    ELSE TimesEPow(Mul(v, InvEulerFx), k + 1)

\* torch.exp
Exp(x) ==
    LET k == x \div Scale
        f == x - k * Scale
    IN  TimesEPow(ExpFrac(f), k)

\* torch.sigmoid
Sigmoid(x) == Div(Scale, Scale + Exp(-x))

\* log(m) for 1 <= m < 2: 2 * atanh((m - 1) / (m + 1))
LnMant(m) ==
    LET s == Div(m - Scale, m + Scale)
        s2 == Mul(s, s)
        s3 == Mul(s, s2)
        s5 == Mul(s3, s2)
        s7 == Mul(s5, s2)
        s9 == Mul(s7, s2)
    IN  2 * (s + RoundDiv(s3, 3) + RoundDiv(s5, 5) + RoundDiv(s7, 7) + RoundDiv(s9, 9))

\* torch.log of a positive grid value
Ln(x) ==
    LET k == Log2Floor(x)
        e == k - 12
        m == IF e >= 0 THEN x \div 2^e ELSE x * 2^(-e)
    IN  e * Ln2Fx + LnMant(m)

-----------------------------------------------------------------------------
(* Tensors and the primitive set                                           *)
(*                                                                         *)
(* A tensor of shape (n, w[, 3]) is [w |-> w, rows |-> <<row_1..row_n>>],  *)
(* each row a sequence of w numbers (a trailing dimension of 3 colour      *)
(* channels is folded into one number per coefficient).                    *)

\* the sequence f as a tuple whose entries are evaluated once
Tup(f) == f \o <<>>

ParamNames ==
    {"means", "scales", "quats", "opacities", "sh_0", "sh_n",
     "times", "durations", "velocities"}

\* math.isqrt
isqrt(n) == CHOOSE k \in 0..n : k * k <= n /\ n < (k + 1) * (k + 1)

\* Tensor.float()
float(t) ==
    [w |-> t.w,
     rows |-> Tup([i \in 1..Len(t.rows) |->
                 Tup([j \in 1..Len(t.rows[i]) |-> Float32(t.rows[i][j])])])]

\* __init__ with times and durations stored under each other's name
DynamicGaussians_swapped(kw) ==
    [p |-> [a \in ParamNames |->
              float(kw[IF a = "times" THEN "durations"
                       ELSE IF a = "durations" THEN "times" ELSE a])],
     sh_degree |-> isqrt(kw["sh_n"].w + 1) - 1]

\* DynamicGaussians.__init__: kw maps the nine parameter names to tensors
DynamicGaussians(kw) ==
    [p |-> [a \in ParamNames |-> float(kw[a])],
     sh_degree |-> isqrt(kw["sh_n"].w + 1) - 1]

\* torch.zeros((1, w)) where torch.empty((0, w)) is meant
EmptyTensor_onerow(w) == [w |-> w, rows |-> <<[j \in 1..w |-> 0]>>]

\* torch.empty((0, w))
EmptyTensor(w) == [w |-> w, rows |-> <<>>]

\* DynamicGaussians.empty
empty(sh_degree) ==
    DynamicGaussians(
        [a \in ParamNames |->
            CASE a = "means" -> EmptyTensor(3)
              [] a = "scales" -> EmptyTensor(3)
              [] a = "quats" -> EmptyTensor(4)
              [] a = "opacities" -> EmptyTensor(1)
              [] a = "sh_0" -> EmptyTensor(1)
              [] a = "sh_n" -> EmptyTensor((sh_degree + 1) * (sh_degree + 1) - 1)
              [] a = "times" -> EmptyTensor(1)
              [] a = "durations" -> EmptyTensor(1)
              [] a = "velocities" -> EmptyTensor(3)])

\* torch.cat along dimension 0 needs equal trailing sizes
CatOk(s, t) == s.w = t.w

\* torch.cat([t, s]) where torch.cat([s, t]) is meant
cat_swapped(s, t) == [w |-> s.w, rows |-> t.rows \o s.rows]

cat(s, t) == [w |-> s.w, rows |-> s.rows \o t.rows]

\* DynamicGaussians.__or__: the returned set, and both operands as the call
\* leaves them
Or(self, other) ==
    IF \A a \in ParamNames : CatOk(self.p[a], other.p[a])
    THEN [out |-> "ok",
          self |-> self,
          other |-> other,
          val |-> DynamicGaussians(
                      [a \in ParamNames |-> cat(self.p[a], other.p[a])])]
    ELSE [out |-> "raise", exc |-> "RuntimeError", self |-> self, other |-> other]

\* DynamicGaussians.__len__
len(self) == Len(self.p["means"].rows)

-----------------------------------------------------------------------------
(* Persistence: the content of a checkpoint file                           *)

Absent == [kind |-> "absent"]

\* torch.save(self, path): the pickled object written, and self afterwards
save(self) == [file |-> [kind |-> "object", obj |-> self], self |-> self]

\* nn.Module.state_dict(): the registered parameters by name
state_dict(self) == self.p

\* torch.save(self.state_dict(), path)
save_dict(self) == [file |-> [kind |-> "dict", d |-> state_dict(self)], self |-> self]

\* DynamicGaussians.load on the content of the file at path
load(content) ==
    IF content.kind = "absent"
    THEN [out |-> "raise", exc |-> "FileNotFoundError"]
    ELSE IF content.kind = "object"
    THEN [out |-> "ok", val |-> content.obj]
    ELSE IF content.kind = "dict"
    THEN IF DOMAIN content.d = ParamNames
         THEN [out |-> "ok", val |-> DynamicGaussians(content.d)]
         ELSE [out |-> "raise", exc |-> "TypeError"]
    ELSE [out |-> "none"]

-----------------------------------------------------------------------------
(* Time-evaluated views                                                    *)

\* broadcast of two leading dimensions; -1 when they do not broadcast
BcastLen(a, b) ==
    IF a = b THEN a
    ELSE IF a = 1 THEN b
    ELSE IF b = 1 THEN a
    ELSE -1

BcastLen3(a, b, c) ==
    IF BcastLen(a, b) = -1 THEN -1 ELSE BcastLen(BcastLen(a, b), c)

\* row i of a tensor under broadcasting
Row(t, i) == IF Len(t.rows) = 1 THEN t.rows[1] ELSE t.rows[i]

\* temporal_means with the elapsed time clamped at 0
temporal_means_clamped(self, t) ==
    LET means == self.p["means"]
        times == self.p["times"]
        velocities == self.p["velocities"]
        n == BcastLen3(Len(times.rows), Len(velocities.rows), Len(means.rows))
        Pos(v) == IF v < 0 THEN 0 ELSE v
    IN  IF n = -1
        THEN [out |-> "raise", exc |-> "RuntimeError", self |-> self]
        ELSE [out |-> "ok",
              self |-> self,
              val |-> [w |-> 3,
                       rows |-> Tup([i \in 1..n |->
                          Tup([c \in 1..3 |->
                             Float32(Row(means, i)[c]
                                 + Mul(Float32(Pos(t - Row(times, i)[1])),
                                       Row(velocities, i)[c]))])])]]

\* DynamicGaussians.temporal_means: self.means + (t - self.times) *
\* self.velocities in float32, and self as the call leaves it
temporal_means(self, t) ==
    LET means == self.p["means"]
        times == self.p["times"]
        velocities == self.p["velocities"]
        n == BcastLen3(Len(times.rows), Len(velocities.rows), Len(means.rows))
    IN  IF n = -1
        THEN [out |-> "raise", exc |-> "RuntimeError", self |-> self]
        ELSE [out |-> "ok",
              self |-> self,
              val |-> [w |-> 3,
                       rows |-> Tup([i \in 1..n |->
                          Tup([c \in 1..3 |->
                             Float32(Row(means, i)[c]
                                 + Mul(Float32(t - Row(times, i)[1]),
                                       Row(velocities, i)[c]))])])]]

\* means_t of DynamicGaussians.forward
ForwardMeans(self, t) ==
    LET means == self.p["means"]
        times == self.p["times"]
        velocities == self.p["velocities"]
        n == BcastLen3(Len(times.rows), Len(velocities.rows), Len(means.rows))
    IN  IF n = -1
        THEN [out |-> "raise", exc |-> "RuntimeError"]
        ELSE [out |-> "ok",
              val |-> [w |-> 3,
                       rows |-> Tup([i \in 1..n |->
                          Tup([c \in 1..3 |->
                             Float32(Row(means, i)[c]
                                 + Mul(Float32(t - Row(times, i)[1]),
                                       Row(velocities, i)[c]))])])]]

\* z ** 2; |z| beyond SqSat is held at SqSat, where exp(-0.5 * z^2) is
\* already 0 on the grid
SqSat == 8 * Scale

Square(z) == IF Abs(z) >= SqSat THEN Mul(SqSat, SqSat) ELSE Mul(z, z)

\* sigmoid(o) * exp(-0.5 * ((t - tc) / exp(d)) ** 2) for one primitive
Envelope(o, tc, d, t) ==
    Mul(Sigmoid(o), Exp(-(Square(Div(t - tc, Exp(d))) \div 2)))

\* temporal_opacity that is 0 before the time centre
temporal_opacity_onesided(self, t) ==
    LET o == self.p["opacities"]
        tc == self.p["times"]
        d == self.p["durations"]
        n == BcastLen3(Len(tc.rows), Len(d.rows), Len(o.rows))
    IN  IF n = -1
        THEN [out |-> "raise", exc |-> "RuntimeError", self |-> self]
        ELSE [out |-> "ok",
              self |-> self,
              val |-> [w |-> 1,
                       rows |-> Tup([i \in 1..n |->
                          <<IF t < Row(tc, i)[1] THEN 0
                            ELSE Envelope(Row(o, i)[1], Row(tc, i)[1], Row(d, i)[1], t)>>])]]

\* DynamicGaussians.temporal_opacity: an (n, 1) tensor
temporal_opacity(self, t) ==
    LET o == self.p["opacities"]
        tc == self.p["times"]
        d == self.p["durations"]
        n == BcastLen3(Len(tc.rows), Len(d.rows), Len(o.rows))
    IN  IF n = -1
        THEN [out |-> "raise", exc |-> "RuntimeError", self |-> self]
        ELSE [out |-> "ok",
              self |-> self,
              val |-> [w |-> 1,
                       rows |-> Tup([i \in 1..n |->
                          <<Envelope(Row(o, i)[1], Row(tc, i)[1], Row(d, i)[1], t)>>])]]

\* Tensor.squeeze(-1) of an (n, 1) tensor: the n values
squeeze(t) == Tup([i \in 1..Len(t.rows) |-> t.rows[i][1]])

\* positive infinity of float32
Inf == 2^30

\* clamp(1e-8, 1 - 1e-8) in float32.  1 - 1e-8 rounds to 1.0 in float32, so
\* the upper bound is 1.0.  1e-8 lies below the grid: a grid value of 0
\* comes out of the clamp as 1e-8, written as the grid value 0.
ClampToUnit(y) == IF y < 0 THEN 0 ELSE IF y > Scale THEN Scale ELSE y

\* log(1e-8 / (1 - 1e-8)) on the grid
LogitOfClampMin == -RoundDiv(184207 * Scale, 10000)

\* torch.logit of a clamped value: log(y / (1 - y))
logit(y) ==
    IF y = 0 THEN LogitOfClampMin
    ELSE IF y >= Scale THEN Inf
    ELSE Ln(y) - Ln(Scale - y)

\* DynamicGaussians.temporal_opacity_logit
temporal_opacity_logit(self, t) ==
    LET temporal_opacity_sigmoid == temporal_opacity(self, t)
    IN  IF temporal_opacity_sigmoid.out = "raise"
        THEN temporal_opacity_sigmoid
        ELSE [out |-> "ok",
              self |-> temporal_opacity_sigmoid.self,
              val |-> [w |-> 1,
                       rows |-> Tup([i \in 1..Len(temporal_opacity_sigmoid.val.rows) |->
                          <<logit(ClampToUnit(temporal_opacity_sigmoid.val.rows[i][1]))>>])]]

\* torch.exp of a tensor
ExpTensor(t) ==
    [w |-> t.w,
     rows |-> Tup([i \in 1..Len(t.rows) |->
                 Tup([j \in 1..Len(t.rows[i]) |-> Exp(t.rows[i][j])])])]

\* torch.cat([s, t], dim=1) needs equal leading sizes
CatColsOk(s, t) == Len(s.rows) = Len(t.rows)

CatCols(s, t) ==
    [w |-> s.w + t.w,
     rows |-> Tup([i \in 1..Len(s.rows) |-> s.rows[i] \o t.rows[i]])]

\* image.clone().clamp(0, 1) of one pixel value
ClampImage(v) == IF v < 0 THEN 0 ELSE IF v > Scale THEN Scale ELSE v

\* forward that stores the per-call degree in self.sh_degree
forward_storing(self, t, w2c, intrinsic, shape, sh_degree) ==
    LET degree == IF sh_degree = <<>> THEN self.sh_degree ELSE sh_degree[1]
        kept == [self EXCEPT !.sh_degree = degree]
        means_t == ForwardMeans(self, t)
        opac == temporal_opacity(self, t)
    IN  IF means_t.out = "raise" \/ opac.out = "raise"
             \/ ~CatColsOk(self.p["sh_0"], self.p["sh_n"])
        THEN [out |-> "raise", exc |-> "RuntimeError", self |-> kept]
        ELSE [out |-> "ok",
              self |-> kept,
              val |-> [means |-> means_t.val,
                       quats |-> self.p["quats"],
                       scales |-> ExpTensor(self.p["scales"]),
                       opacities |-> squeeze(opac.val),
                       colors |-> CatCols(self.p["sh_0"], self.p["sh_n"]),
                       viewmats |-> w2c,
                       Ks |-> intrinsic,
                       sh_degree |-> degree,
                       width |-> shape[2],
                       height |-> shape[1]]]

\* DynamicGaussians.forward up to the call of gsplat.rasterization: the
\* keyword arguments the rasterizer is called with, and self as the call
\* leaves it
forward(self, t, w2c, intrinsic, shape, sh_degree) ==
    LET means_t == ForwardMeans(self, t)
        scales == ExpTensor(self.p["scales"])
        degree == IF sh_degree = <<>> THEN self.sh_degree ELSE sh_degree[1]
        opac == temporal_opacity(self, t)
    IN  IF means_t.out = "raise" THEN means_t @@ [self |-> self]
        ELSE IF opac.out = "raise" THEN opac
        ELSE IF ~CatColsOk(self.p["sh_0"], self.p["sh_n"])
        THEN [out |-> "raise", exc |-> "RuntimeError", self |-> self]
        ELSE [out |-> "ok",
              self |-> self,
              val |-> [means |-> means_t.val,
                       quats |-> self.p["quats"],
                       scales |-> scales,
                       opacities |-> squeeze(opac.val),
                       colors |-> CatCols(self.p["sh_0"], self.p["sh_n"]),
                       viewmats |-> w2c,
                       Ks |-> intrinsic,
                       sh_degree |-> degree,
                       width |-> shape[2],
                       height |-> shape[1]]]

-----------------------------------------------------------------------------
(* Temporal activity selection (_utils.py)                                 *)

\* sum of s[lo..hi]
RECURSIVE SumRange(_, _, _)
SumRange(s, lo, hi) ==
    IF lo > hi THEN 0
    ELSE IF lo = hi THEN s[lo]
    ELSE LET mid == (lo + hi) \div 2
         IN  SumRange(s, lo, mid) + SumRange(s, mid + 1, hi)

\* Tensor.sum over one row
SumSeq(s) == SumRange(s, 1, Len(s))

\* log(1e-12) on the grid: the logarithm of an eps that lies below the grid
LnTinyEps == -RoundDiv(276310 * Scale, 10000)

\* torch.log of a non-negative value that had eps added; a grid value of 0
\* is the eps itself
LogEps(v) == IF v = 0 THEN LnTinyEps ELSE Ln(v)

\* x / row_sum; a row_sum of 0 on the grid is the bare eps, and the row is 0
DivRow(v, row_sum) == IF row_sum = 0 THEN 0 ELSE Div(v, row_sum)

\* entropy_indices: x an (N, T) tensor; eps in grid units (0: below the grid,
\* as the default 1e-12 is).  p.add_(eps) works in place on p, and the left
\* operand of the product is that same tensor, so both factors read p + eps.
\* Returns the mask and the tensors x and p as the call leaves them.
entropy_indices(x, entropy_threshold, eps) ==
    LET N == Len(x.rows)
        T == x.w
        logT == Ln(T * Scale)
        row_sum == Tup([i \in 1..N |-> SumSeq(x.rows[i]) + eps])
        p0 == Tup([i \in 1..N |->
                Tup([k \in 1..T |-> DivRow(x.rows[i][k], row_sum[i])])])
        p == Tup([i \in 1..N |-> Tup([k \in 1..T |-> p0[i][k] + eps])])
        H == Tup([i \in 1..N |->
                -SumSeq(Tup([k \in 1..T |-> Mul(p[i][k], LogEps(p[i][k]))]))])
        u == Tup([i \in 1..N |-> IF logT = 0 THEN 0 ELSE Div(H[i], logT)])
        idx_entropy == Tup([i \in 1..N |->
                IF logT = 0 THEN FALSE ELSE u[i] >= entropy_threshold])
    IN  [idx |-> idx_entropy, x |-> x, p |-> [w |-> T, rows |-> p], H |-> H, u |-> u]

\* fps = 30 and range(300) of evenly_distributed_bool
fps == 30

NumFrames == 300

\* (idx + 1) / fps where idx / fps is meant
FrameTime_shifted(idx) == RoundDiv((idx + 1) * Scale, fps)

\* idx / fps
FrameTime(idx) == RoundDiv(idx * Scale, fps)

\* torch.stack(list, dim=1): entry k of the list becomes column k
stack1(list, n) ==
    [w |-> Len(list),
     rows |-> Tup([i \in 1..n |-> Tup([k \in 1..Len(list) |-> list[k][i]])])]

\* the (N, 300) matrix evenly_distributed_bool builds
OpacitySamples(gs) ==
    LET opacity_list ==
            Tup([k \in 1..NumFrames |->
                    squeeze(temporal_opacity(gs, FrameTime(k - 1)).val)])
    IN  stack1(opacity_list, Len(opacity_list[1]))

\* evenly_distributed_bool
evenly_distributed_bool(gs, entropy_threshold, eps) ==
    IF temporal_opacity(gs, FrameTime(0)).out = "raise"
    THEN temporal_opacity(gs, FrameTime(0))
    ELSE LET opacities == OpacitySamples(gs)
         IN  [out |-> "ok",
              self |-> gs,
              val |-> entropy_indices(opacities, entropy_threshold, eps).idx,
              opacities |-> opacities]

\* the comparison with >= where > is meant
opacity_bool_geq(gs, t, threshold) ==
    LET o == temporal_opacity(gs, t)
    IN  IF o.out = "raise" THEN o
        ELSE [out |-> "ok",
              self |-> o.self,
              val |-> Tup([i \in 1..Len(o.val.rows) |-> o.val.rows[i][1] >= threshold])]

\* gs.temporal_opacity(t).squeeze(-1) > threshold  (0.005 in the script)
opacity_bool(gs, t, threshold) ==
    LET o == temporal_opacity(gs, t)
    IN  IF o.out = "raise" THEN o
        ELSE [out |-> "ok",
              self |-> o.self,
              val |-> Tup([i \in 1..Len(o.val.rows) |-> o.val.rows[i][1] > threshold])]

-----------------------------------------------------------------------------
(* Inputs                                                                  *)

\* the largest number of objects the caller keeps
MaxObjs == 2

\* the largest spherical-harmonic degree passed to empty
MaxDegree == 1

\* the largest number of columns of a sample matrix passed to entropy_indices
MaxT == 3

PrimIds == {1, 2, 3, 4}

\* trailing size of each parameter tensor; W is the width of sh_n
Width(a, W) ==
    CASE a \in {"means", "scales", "velocities"} -> 3
      [] a = "quats" -> 4
      [] a = "sh_n" -> W
      [] OTHER -> 1

\* the raw (not yet coerced) row of primitive p in parameter a.  Primitive 1
\* is the worked example of linear motion with a peak opacity of 0.9;
\* primitive 2 is short-lived and has a coordinate that float32 cannot hold;
\* primitive 3 is long-lived; primitive 4 has an opacity parameter of 20,
\* whose sigmoid is 1.0 in float32.
PrimRow(p, a, W) ==
    CASE a = "means" ->
            IF p = 1 THEN <<0, 0, 0>>
            ELSE IF p = 2 THEN <<2^24 + 1, -Scale, Scale \div 2>>
            ELSE <<Scale, Scale, Scale>>
      [] a = "scales" -> <<-p * Scale, 0, (p * Scale) \div 2>>
      [] a = "quats" -> [c \in 1..4 |-> IF c = p THEN Scale ELSE 0]
      [] a = "opacities" ->
            IF p = 1 THEN <<9000>>
            ELSE IF p = 2 THEN <<-Scale>>
            ELSE IF p = 3 THEN <<0>>
            ELSE <<20 * Scale>>
      [] a = "sh_0" -> <<(p * Scale) \div 4>>
      [] a = "sh_n" -> [j \in 1..W |-> 100 * p + j]
      [] a = "times" ->
            IF p \in {1, 4} THEN <<Scale>>
            ELSE IF p = 2 THEN <<2 * Scale>>
            ELSE <<5 * Scale>>
      [] a = "durations" ->
            IF p \in {1, 4} THEN <<0>>
            ELSE IF p = 2 THEN <<-Scale>>
            ELSE <<3 * Scale>>
      [] a = "velocities" ->
            IF p = 1 THEN <<2 * Scale, 0, 0>>
            ELSE IF p = 2 THEN <<Scale, -Scale, Scale \div 2>>
            ELSE <<0, 0, 0>>

Front(s) == SubSeq(s, 1, Len(s) - 1)

\* the keyword arguments of a constructor call: the rows of primitives ps,
\* sh_n of width w, and the tensor named odd (if any) one row short
RawArgs(in) ==
    [a \in ParamNames |->
        LET rows == Tup([i \in 1..Len(in.ps) |-> Tup(PrimRow(in.ps[i], a, in.w))])
        IN  [w |-> Width(a, in.w),
             rows |-> IF a = in.odd THEN Front(rows) ELSE rows]]

In(ps, w, odd) == [ps |-> ps, w |-> w, odd |-> odd]

\* constructor calls whose arrays agree and whose sh_n width is (d+1)^2 - 1
AlignedInputs ==
    {In(<<1>>, 0, "none"), In(<<2, 3>>, 0, "none"), In(<<1, 2>>, 3, "none")}

\* constructor calls with one array a row short, or an sh_n width that is
\* not (d+1)^2 - 1 for any d
SkewInputs ==
    {In(<<1, 2>>, 0, "scales"), In(<<2, 3>>, 0, "means"), In(<<3, 1, 2>>, 0, "times"),
     In(<<1>>, 2, "none")}

Paths == {"gaussians_dict.pt"}

\* what a checkpoint file may hold that this program did not write
ForeignContents == {[kind |-> "other"], [kind |-> "dict", d |-> [step |-> 0]]}

Times == {0, Scale, 3 * Scale, FrameTime(2)}

\* constructor calls for the opacity views: primitives 1, 3 and 4
OpacityInputs ==
    {In(<<1>>, 0, "none"), In(<<3>>, 0, "none"), In(<<4>>, 0, "none"),
     In(<<1, 3>>, 0, "none"), In(<<4, 1>>, 0, "none"), In(<<3, 4>>, 0, "none"),
     In(<<1, 3, 4>>, 0, "none")}

\* times before, at and after the time centres, and far beyond them
OpacityTimes ==
    {-2 * Scale, 0, Scale, 3 * Scale, 4 * Scale, 5 * Scale, 20 * Scale, 40 * Scale}

\* 0.005 of the script, on the grid
OpacityThreshold == RoundDiv(5 * Scale, 1000)

\* 0.005, 0.5, and the opacity primitive 1 has at its time centre
Thresholds == {OpacityThreshold, Scale \div 2, Sigmoid(9000)}

\* 0.75, the default entropy_threshold, and 1.0
EntropyThresholds == {(3 * Scale) \div 4, Scale}

Levels == {0, Scale \div 2, Scale}

\* eps of entropy_indices: the default 1e-12, which lies below the grid, and
\* 1/16
EpsValues == {0, Scale \div 16}

\* one-row sample matrices with up to MaxT columns
SampleMatrices ==
    UNION {{[w |-> T, rows |-> <<r>>] : r \in [1..T -> Levels]} : T \in 2..MaxT}

\* what the external rasterizer may return for a pixel
RasterOutputs == {-Scale, 2 * Scale}

\* the per-call sh_degree of forward, an Optional[int]: <<>> is None, <<d>>
\* is d
DegreeOverrides == {<<>>, <<0>>}

\* further keyword arguments a caller may pass to evenly_distributed_bool:
\* none, or a sampling rate and a frame count
ExtraKwargs == {<<>>, [fps |-> 10, num_frames |-> 2]}

ImageShape == <<2, 3>>

-----------------------------------------------------------------------------
(* State: heap holds the DynamicGaussians objects the caller keeps (an     *)
(* object is its index; at most MaxObjs are kept), disk the checkpoint     *)
(* file at each path, ret the last call with what it returned (new: the    *)
(* object a creating call returned).                                       *)

G(in) == DynamicGaussians(RawArgs(in))

\* a fresh process: no object yet, and no checkpoint file
InitBare ==
    /\ heap = <<>>
    /\ disk = [path \in Paths |-> Absent]
    /\ ret = [op |-> "start"]

\* a fresh process: no object yet, and a disk it did not write
InitEmpty ==
    /\ heap = <<>>
    /\ disk \in [Paths -> {Absent} \cup ForeignContents]
    /\ ret = [op |-> "start"]

\* a process that holds one constructed object
InitOne ==
    /\ \E in \in AlignedInputs \cup SkewInputs : heap = <<G(in)>>
    /\ disk = [path \in Paths |-> Absent]
    /\ ret = [op |-> "start"]

\* a process that holds MaxObjs constructed objects of degree 1
Init ==
    /\ heap = [k \in 1..MaxObjs |->
                 G(In(IF k % 2 = 1 THEN <<1>> ELSE <<2, 3>>, 3, "none"))]
    /\ disk = [path \in Paths |-> Absent]
    /\ ret = [op |-> "start"]

Objs == 1..Len(heap)

HasRoom == Len(heap) < MaxObjs

\* the heap h once the caller has been handed obj
Keep(h, obj) == IF HasRoom THEN Append(h, obj) ELSE h

KeptAt == IF HasRoom THEN Len(heap) + 1 ELSE 0

\* DynamicGaussians(**kw)
Construct(in) ==
    LET kw == RawArgs(in)
        new == DynamicGaussians(kw)
    IN  /\ heap' = Keep(heap, new)
        /\ ret' = [op |-> "construct", kw |-> kw, out |-> "ok", new |-> new,
                   obj |-> KeptAt]
        /\ UNCHANGED disk

\* DynamicGaussians.empty(d)
Empty(d) ==
    /\ heap' = Keep(heap, empty(d))
    /\ ret' = [op |-> "empty", d |-> d, out |-> "ok", new |-> empty(d), obj |-> KeptAt]
    /\ UNCHANGED disk

\* heap[i] | heap[j]
Union(i, j) ==
    \E r \in {Or(heap[i], heap[j])} :
        /\ heap' = LET kept == [heap EXCEPT ![i] = r.self, ![j] = r.other]
                   IN  IF r.out = "ok" THEN Keep(kept, r.val) ELSE kept
        /\ ret' = IF r.out = "ok"
                  THEN [op |-> "or", a |-> i, b |-> j, out |-> "ok", new |-> r.val,
                        obj |-> KeptAt]
                  ELSE [op |-> "or", a |-> i, b |-> j, out |-> "raise", exc |-> r.exc]
        /\ UNCHANGED disk

\* len(heap[i])
Count(i) ==
    /\ ret' = [op |-> "len", a |-> i, out |-> "ok", val |-> len(heap[i])]
    /\ UNCHANGED <<heap, disk>>

\* heap[i].save(path); by notes which object wrote the file
Save(i, path) ==
    \E r \in {save(heap[i])} :
        /\ disk' = [disk EXCEPT ![path] = r.file @@ [by |-> i]]
        /\ heap' = [heap EXCEPT ![i] = r.self]
        /\ ret' = [op |-> "save", a |-> i, path |-> path, out |-> "ok"]

\* heap[i].save_dict(path)
SaveDict(i, path) ==
    \E r \in {save_dict(heap[i])} :
        /\ disk' = [disk EXCEPT ![path] = r.file @@ [by |-> i]]
        /\ heap' = [heap EXCEPT ![i] = r.self]
        /\ ret' = [op |-> "save_dict", a |-> i, path |-> path, out |-> "ok"]

\* DynamicGaussians.load(path)
Load(path) ==
    \E r \in {load(disk[path])} :
        /\ heap' = IF r.out = "ok" THEN Keep(heap, r.val) ELSE heap
        /\ ret' = IF r.out = "ok"
                  THEN [op |-> "load", path |-> path, content |-> disk[path],
                        out |-> "ok", new |-> r.val, obj |-> KeptAt]
                  ELSE IF r.out = "raise"
                  THEN [op |-> "load", path |-> path, content |-> disk[path],
                        out |-> "raise", exc |-> r.exc]
                  ELSE [op |-> "load", path |-> path, content |-> disk[path],
                        out |-> "none"]
        /\ UNCHANGED disk

\* what a call handed back: its value, or the exception it raised
Returned(r) == IF r.out = "ok" THEN r.val ELSE r.exc

\* heap[i].temporal_means(t)
TemporalMeans(i, t) ==
    \E r \in {temporal_means(heap[i], t)} :
        /\ heap' = [heap EXCEPT ![i] = r.self]
        /\ ret' = [op |-> "temporal_means", a |-> i, t |-> t, out |-> r.out,
                   val |-> Returned(r)]
        /\ UNCHANGED disk

\* heap[i].temporal_opacity(t)
TemporalOpacity(i, t) ==
    \E r \in {temporal_opacity(heap[i], t)} :
        /\ heap' = [heap EXCEPT ![i] = r.self]
        /\ ret' = [op |-> "temporal_opacity", a |-> i, t |-> t, out |-> r.out,
                   val |-> Returned(r)]
        /\ UNCHANGED disk

\* heap[i].temporal_opacity_logit(t)
TemporalOpacityLogit(i, t) ==
    \E r \in {temporal_opacity_logit(heap[i], t)} :
        /\ heap' = [heap EXCEPT ![i] = r.self]
        /\ ret' = [op |-> "temporal_opacity_logit", a |-> i, t |-> t, out |-> r.out,
                   val |-> Returned(r)]
        /\ UNCHANGED disk

\* heap[i](t, w2c, intrinsic, shape, clamp, sh_degree); the rasterizer hands
\* back a pixel of value pixel
Forward(i, t, clamp, sh_degree, pixel) ==
    \E r \in {forward(heap[i], t, "w2c", "intrinsic", ImageShape, sh_degree)} :
        /\ heap' = [heap EXCEPT ![i] = r.self]
        /\ ret' = [op |-> "forward", a |-> i, t |-> t, sh_degree |-> sh_degree,
                   clamp |-> clamp, out |-> r.out,
                   val |-> Returned(r),
                   image |-> IF clamp THEN ClampImage(pixel) ELSE pixel]
        /\ UNCHANGED disk

\* entropy_indices(x, entropy_threshold, eps)
EntropyIndices(x, entropy_threshold, eps) ==
    \E r \in {entropy_indices(x, entropy_threshold, eps)} :
        /\ ret' = [op |-> "entropy_indices", x |-> x, threshold |-> entropy_threshold,
                   eps |-> eps, out |-> "ok", val |-> r.idx, x_after |-> r.x,
                   H |-> r.H, u |-> r.u]
        /\ UNCHANGED <<heap, disk>>

\* evenly_distributed_bool(heap[i], entropy_threshold, eps, **extra); extra
\* holds the further keyword arguments the caller passes: the signature has
\* none, so any is a TypeError
EvenlyDistributedBool(i, entropy_threshold, eps, extra) ==
    \E r \in {IF DOMAIN extra = {}
               THEN evenly_distributed_bool(heap[i], entropy_threshold, eps)
               ELSE [out |-> "raise", exc |-> "TypeError", self |-> heap[i]]} :
        /\ heap' = [heap EXCEPT ![i] = r.self]
        /\ ret' = [op |-> "evenly_distributed_bool", a |-> i,
                   threshold |-> entropy_threshold, eps |-> eps, extra |-> extra,
                   out |-> r.out, val |-> Returned(r),
                   opacities |-> IF r.out = "ok" THEN r.opacities ELSE <<>>]
        /\ UNCHANGED disk

\* heap[i].temporal_opacity(t).squeeze(-1) > threshold
OpacityBool(i, t, threshold) ==
    \E r \in {opacity_bool(heap[i], t, threshold)} :
        /\ heap' = [heap EXCEPT ![i] = r.self]
        /\ ret' = [op |-> "opacity_bool", a |-> i, t |-> t, threshold |-> threshold,
                   out |-> r.out, val |-> Returned(r)]
        /\ UNCHANGED disk

\* construct, empty, union and count over the constructor calls in inputs
SetOps(inputs) ==
    \/ \E in \in inputs : Construct(in)
    \/ \E d \in 0..MaxDegree : Empty(d)
    \/ \E i, j \in Objs : Union(i, j)
    \/ \E i \in Objs : Count(i)

StoreOps ==
    \/ \E i \in Objs, path \in Paths : Save(i, path)
    \/ \E i \in Objs, path \in Paths : SaveDict(i, path)
    \/ \E path \in Paths : Load(path)

ViewOps(times, thresholds, pixels) ==
    \/ \E i \in Objs, t \in times : TemporalMeans(i, t)
    \/ \E i \in Objs, t \in times : TemporalOpacity(i, t)
    \/ \E i \in Objs, t \in times : TemporalOpacityLogit(i, t)
    \/ \E i \in Objs, t \in times, clamp \in BOOLEAN, d \in DegreeOverrides,
          pixel \in pixels : Forward(i, t, clamp, d, pixel)
    \/ \E i \in Objs, t \in times, th \in thresholds : OpacityBool(i, t, th)

SelectOps(matrices, thresholds) ==
    \/ \E x \in matrices, th \in thresholds : EntropyIndices(x, th, 0)
    \/ \E i \in Objs, th \in thresholds, extra \in ExtraKwargs :
          EvenlyDistributedBool(i, th, 0, extra)

\* a constant row and a one-hot row
CoreMatrices ==
    {[w |-> 2, rows |-> <<<<Scale \div 2, Scale \div 2>>, <<Scale, 0>>>>]}

CoreInputs == {In(<<1>>, 3, "none"), In(<<3, 2>>, 3, "none")}

\* every operation, over a small set of arguments
Next ==
    \/ SetOps(CoreInputs)
    \/ StoreOps
    \/ ViewOps({3 * Scale}, {OpacityThreshold}, {2 * Scale})
    \/ SelectOps(CoreMatrices, {(3 * Scale) \div 4})

Spec == Init /\ [][Next]_vars

\* construction and union over every constructor call of the catalogue
NextSets == SetOps(AlignedInputs \cup SkewInputs)

SpecSets == InitBare /\ [][NextSets]_vars

\* construction and persistence
NextStore ==
    \/ \E in \in AlignedInputs \cup SkewInputs : Construct(in)
    \/ StoreOps

SpecStore == InitEmpty /\ [][NextStore]_vars

\* the time-evaluated views of one object
NextViews == ViewOps(Times, Thresholds, RasterOutputs)

SpecViews == InitOne /\ [][NextViews]_vars

\* the activity selection over one object
NextSelect ==
    \/ \E x \in SampleMatrices, th \in EntropyThresholds : EntropyIndices(x, th, 0)
    \/ \E i \in Objs, extra \in ExtraKwargs :
          EvenlyDistributedBool(i, (3 * Scale) \div 4, 0, extra)

SpecSelect == InitOne /\ [][NextSelect]_vars

\* a process that holds one object of the opacity catalogue
InitOpacity ==
    /\ \E in \in OpacityInputs : heap = <<G(in)>>
    /\ disk = [path \in Paths |-> Absent]
    /\ ret = [op |-> "start"]

\* the opacity and its logit over the opacity times
NextOpacity ==
    \/ \E i \in Objs, t \in OpacityTimes : TemporalOpacity(i, t)
    \/ \E i \in Objs, t \in OpacityTimes : TemporalOpacityLogit(i, t)

SpecOpacity == InitOpacity /\ [][NextOpacity]_vars

\* entropy_indices alone, over the sample matrices and both values of eps
NextEntropy ==
    \E x \in SampleMatrices \cup CoreMatrices, th \in EntropyThresholds,
       eps \in EpsValues : EntropyIndices(x, th, eps)

SpecEntropy == InitBare /\ [][NextEntropy]_vars

-----------------------------------------------------------------------------
(* Properties                                                              *)

\* the objects that exist: those kept, and the one just returned
Made ==
    {heap[i] : i \in Objs} \cup (IF "new" \in DOMAIN ret THEN {ret.new} ELSE {})

\* all nine arrays of o have count() rows
Aligned(o) == \A a \in ParamNames : Len(o.p[a].rows) = len(o)

\* the arrays of a constructor call agree in their leading dimension
KwAgree(kw) == \A a, b \in ParamNames : Len(kw[a].rows) = Len(kw[b].rows)

\* w is (k+1)^2 - 1 for some degree k >= 0
ValidWidth(w) == \E k \in 0..w : (k + 1) * (k + 1) - 1 = w

\* C1: every set that exists has all nine arrays with the same leading
\* dimension N, count() returns that N, and a construct call whose arrays
\* disagree in leading dimension fails and yields no set.
C1_IndexAligned ==
    /\ \A o \in Made : Aligned(o)
    /\ (ret.op = "construct" /\ ~KwAgree(ret.kw))
           => (ret.out = "raise" /\ "new" \notin DOMAIN ret)

\* C2: for every set that exists the width W of sh_n (color_rest) is
\* (sh_degree+1)^2 - 1 with sh_degree >= 0, empty(d).sh_degree = d, and a
\* construct call whose sh_n width is not of that form fails.
C2_ShDegree ==
    /\ \A o \in Made :
          /\ o.sh_degree >= 0
          /\ o.p["sh_n"].w = (o.sh_degree + 1) * (o.sh_degree + 1) - 1
    /\ ret.op = "empty" => ret.new.sh_degree = ret.d
    /\ (ret.op = "construct" /\ ~ValidWidth(ret.kw["sh_n"].w)) => ret.out = "raise"

\* C3: a union of two sets with equal sh_n width returns a set in which each
\* of the nine arrays is a's rows followed by b's rows in their order, none
\* dropped: every array has len(a array) + len(b array) rows, row i is a's
\* row i, row len(a array) + j is b's row j, and count is the sum of counts.
C3_UnionConcat ==
    ret.op = "or" =>
        LET a == heap[ret.a]
            b == heap[ret.b]
        IN  /\ a.p["sh_n"].w = b.p["sh_n"].w <=> ret.out = "ok"
            /\ ret.out = "ok" =>
                  /\ len(ret.new) = len(a) + len(b)
                  /\ \A x \in ParamNames :
                        LET ra == a.p[x].rows
                            rb == b.p[x].rows
                            rr == ret.new.p[x].rows
                        IN  /\ Len(rr) = Len(ra) + Len(rb)
                            /\ \A i \in 1..Len(ra) : rr[i] = ra[i]
                            /\ \A j \in 1..Len(rb) : rr[Len(ra) + j] = rb[j]

\* a union of two different non-empty sets has returned
C3_Witness ==
    /\ ret.op = "or"
    /\ ret.out = "ok"
    /\ len(heap[ret.a]) >= 1
    /\ len(heap[ret.b]) >= 2
    /\ Aligned(heap[ret.a])
    /\ Aligned(heap[ret.b])

\* x was built with spherical-harmonic degree d
BuiltWith(x, d) == x.p["sh_n"].w = (d + 1) * (d + 1) - 1

\* C4: for every set x built with degree d, union(empty(d), x) and
\* union(x, empty(d)) return a set equal to x in all nine arrays, in the
\* same order, with the count and the sh_degree of x.
C4_UnionIdentity ==
    ret.op = "or" =>
        \A d \in 0..MaxDegree :
            LET a == heap[ret.a]
                b == heap[ret.b]
                Same(x) ==
                    /\ ret.out = "ok"
                    /\ \A n \in ParamNames : ret.new.p[n] = x.p[n]
                    /\ len(ret.new) = len(x)
                    /\ ret.new.sh_degree = x.sh_degree
                    /\ ret.new.sh_degree = d
            IN  /\ (a = empty(d) /\ BuiltWith(b, d)) => Same(b)
                /\ (b = empty(d) /\ BuiltWith(a, d)) => Same(a)

\* empty(1) | x has returned for a non-empty x of degree 1
C4_Witness ==
    /\ ret.op = "or"
    /\ ret.out = "ok"
    /\ heap[ret.a] = empty(1)
    /\ BuiltWith(heap[ret.b], 1)
    /\ len(heap[ret.b]) >= 2

\* the content is a full object or a mapping of the nine parameter arrays
Recognized(c) ==
    \/ c.kind = "object"
    \/ c.kind = "dict" /\ DOMAIN c.d = ParamNames

\* C5: load on a content that is neither a full object nor a parameter
\* mapping fails (it never returns without a set); on a full object or a
\* parameter mapping it returns a set.
C5_LoadFailsOrReturnsSet ==
    ret.op = "load" =>
        IF Recognized(ret.content)
        THEN ret.out = "ok" /\ "new" \in DOMAIN ret
        ELSE ret.out = "raise"

\* C6: loading what save or save_dict wrote for x returns a set with x's
\* nine arrays, element for element in the same order, and x's count and
\* sh_degree; the mapping written holds exactly the nine named arrays and is
\* rebuilt through the constructor.
C6_RoundTrip ==
    /\ \A path \in Paths :
          ("by" \in DOMAIN disk[path] /\ disk[path].kind = "dict") =>
              /\ DOMAIN disk[path].d = ParamNames
              /\ \A n \in ParamNames : disk[path].d[n] = heap[disk[path].by].p[n]
    /\ (ret.op = "load" /\ "by" \in DOMAIN ret.content) =>
          LET x == heap[ret.content.by]
          IN  /\ ret.out = "ok"
              /\ \A n \in ParamNames : ret.new.p[n] = x.p[n]
              /\ len(ret.new) = len(x)
              /\ ret.new.sh_degree = x.sh_degree
              /\ ret.content.kind = "dict" => ret.new = DynamicGaussians(ret.content.d)

\* a parameter mapping written for a set that holds the coordinate rounded
\* by the float32 coercion has been loaded
C6_Witness ==
    /\ ret.op = "load"
    /\ ret.out = "ok"
    /\ ret.content.kind = "dict"
    /\ "by" \in DOMAIN ret.content
    /\ len(ret.new) >= 2
    /\ \E i \in 1..len(ret.new) : ret.new.p["means"].rows[i][1] = 2^24

\* C7: no operation changes a set that exists: after position_at, opacity_at,
\* opacity_logit_at, render (also with an overriding sh_degree), count,
\* union, save, classification and visibility filtering, every set has the
\* nine arrays and the sh_degree it had before; a union hands back an object
\* that is neither operand, and entropy_indices leaves its sample matrix as
\* it was.
C7_NoHiddenMutation ==
    [][/\ \A i \in Objs : heap'[i] = heap[i]
       /\ Len(heap') >= Len(heap)
       /\ (ret'.op = "or" /\ ret'.out = "ok") => ret'.obj \notin Objs
       /\ ret'.op = "entropy_indices" => ret'.x_after = ret'.x]_vars

\* a render with an overriding sh_degree of 0 has returned on a set whose
\* stored sh_degree is 1
C7_Witness ==
    /\ ret.op = "forward"
    /\ ret.out = "ok"
    /\ ret.sh_degree = <<0>>
    /\ ret.val.sh_degree = 0
    /\ heap[ret.a].sh_degree = 1

\* half a unit in the last place of float32 at v, in grid units
HalfUlp(v) == IF Abs(v) < 2^24 THEN 0 ELSE 2^(Log2Floor(Abs(v)) - 24)

\* C8: on a set whose arrays are aligned, position_at(t) returns for every
\* primitive i and coordinate c the value mean[i][c] + (t - time_center[i]) *
\* velocity[i][c] (to float32 precision), before and after the time centre
\* alike; the worked example gives [0,0,0] at t=1, [4,0,0] at t=3 and
\* [-2,0,0] at t=0; render hands the rasterizer the same positions.
C8_LinearMotion ==
    /\ (ret.op = "temporal_means" /\ Aligned(heap[ret.a])) =>
          LET x == heap[ret.a]
          IN  /\ ret.out = "ok"
              /\ Len(ret.val.rows) = len(x)
              /\ \A i \in 1..len(x) : \A c \in 1..3 :
                    Abs(ret.val.rows[i][c] - x.p["means"].rows[i][c]
                        - Mul(ret.t - x.p["times"].rows[i][1],
                              x.p["velocities"].rows[i][c]))
                      <= HalfUlp(ret.val.rows[i][c])
              /\ \A i \in 1..len(x) :
                    (/\ x.p["means"].rows[i] = <<0, 0, 0>>
                     /\ x.p["times"].rows[i] = <<Scale>>
                     /\ x.p["velocities"].rows[i] = <<2 * Scale, 0, 0>>) =>
                        ret.val.rows[i] = <<2 * (ret.t - Scale), 0, 0>>
    /\ (ret.op = "forward" /\ ret.out = "ok") =>
          ret.val.means = temporal_means(heap[ret.a], ret.t).val

\* position_at(0) has returned [-2,0,0] for the primitive of the worked
\* example, whose time centre is 1
C8_Witness ==
    /\ ret.op = "temporal_means"
    /\ ret.out = "ok"
    /\ ret.t = 0
    /\ Aligned(heap[ret.a])
    /\ ret.val.rows[1] = <<-2 * Scale, 0, 0>>

\* C9: the visibility mask at (t, threshold) marks primitive i exactly when
\* opacity_at(t)[i] > threshold, strictly; and every primitive marked at a
\* threshold is marked at every smaller threshold for the same set and t.
C9_VisibleStrict ==
    (ret.op = "opacity_bool" /\ ret.out = "ok") =>
        LET x == heap[ret.a]
            o == squeeze(temporal_opacity(x, ret.t).val)
        IN  /\ Len(ret.val) = Len(o)
            /\ \A i \in 1..Len(o) : ret.val[i] <=> o[i] > ret.threshold
            /\ \A th \in Thresholds :
                  th <= ret.threshold =>
                      \A i \in 1..Len(o) :
                          ret.val[i] => opacity_bool(x, ret.t, th).val[i]

\* a mask has been taken at a threshold equal to a primitive's opacity, and
\* at a threshold below which another threshold lies
C9_Witness ==
    /\ ret.op = "opacity_bool"
    /\ ret.out = "ok"
    /\ \E i \in 1..Len(ret.val) :
          /\ squeeze(temporal_opacity(heap[ret.a], ret.t).val)[i] = ret.threshold
          /\ ~ret.val[i]
          /\ \E th \in Thresholds :
                th < ret.threshold /\ opacity_bool(heap[ret.a], ret.t, th).val[i]

\* the arrays the opacity reads are aligned
OpacityAligned(x) ==
    /\ Len(x.p["times"].rows) = len(x)
    /\ Len(x.p["durations"].rows) = len(x)
    /\ Len(x.p["opacities"].rows) = len(x)

\* the sample matrix and the mask are those of rate f and n frames
SampledAt(x, f, n) ==
    /\ ret.out = "ok"
    /\ ret.opacities.w = n
    /\ Len(ret.opacities.rows) = len(x)
    /\ Len(ret.val) = len(x)
    /\ \A k \in 0..(n - 1) :
          LET o == squeeze(temporal_opacity(x, RoundDiv(k * Scale, f)).val)
          IN  \A i \in 1..len(x) : ret.opacities.rows[i][k + 1] = o[i]
    /\ \A i \in 1..len(x) :
          ret.val[i] = entropy_indices([w |-> n, rows |-> <<ret.opacities.rows[i]>>],
                                       ret.threshold, ret.eps).idx[1]

\* C10 as stated: the classification samples opacity_at(k/fps) for k = 0 ..
\* num_frames-1, with fps and num_frames those the caller supplies and 30 and
\* 300 when the caller supplies none.
C10_CallerConfigured ==
    (ret.op = "evenly_distributed_bool" /\ OpacityAligned(heap[ret.a])) =>
        SampledAt(heap[ret.a],
                  IF "fps" \in DOMAIN ret.extra THEN ret.extra.fps ELSE 30,
                  IF "num_frames" \in DOMAIN ret.extra THEN ret.extra.num_frames ELSE 300)

\* C10: the classification takes a set, an entropy threshold and eps, and no
\* sampling rate or frame count: a call that supplies fps or num_frames
\* fails.  It samples opacity_at(k/30) for exactly k = 0, 1, ..., 299 in that
\* order, builds the N x 300 matrix whose row i, column k is primitive i's
\* opacity at time k/30, and returns for each primitive i the boolean that
\* entropy_indices gives for row i with the supplied threshold.
C10_FixedSampling ==
    ret.op = "evenly_distributed_bool" =>
        /\ DOMAIN ret.extra # {} => ret.out = "raise" /\ ret.val = "TypeError"
        /\ (DOMAIN ret.extra = {} /\ OpacityAligned(heap[ret.a])) =>
              SampledAt(heap[ret.a], 30, 300)

\* a classification of two primitives has returned a mask that marks one and
\* not the other
C10_Witness ==
    /\ ret.op = "evenly_distributed_bool"
    /\ ret.out = "ok"
    /\ DOMAIN ret.extra = {}
    /\ OpacityAligned(heap[ret.a])
    /\ Len(ret.val) = 2
    /\ \E i, j \in 1..2 : ret.val[i] /\ ~ret.val[j]

\* what the grid's rounding may add to a normalized entropy
EntropyTol == Scale \div 512

\* u as stated: p = x / (row_sum + eps), H = -sum(p * log(p + eps)),
\* u = H / log(T), for one row of T >= 2 samples
StatedU(row, eps) ==
    LET T == Len(row)
        row_sum == SumSeq(row) + eps
        p == Tup([k \in 1..T |-> DivRow(row[k], row_sum)])
        H == -SumSeq(Tup([k \in 1..T |-> Mul(p[k], LogEps(p[k] + eps))]))
    IN  Div(H, Ln(T * Scale))

\* C11 as stated: for every row of a matrix of non-negative samples,
\* entropy_indices computes u = H / log(T) with H = -sum(p * log(p + eps)) and
\* p = x / (row_sum + eps), and returns u >= entropy_threshold; u lies in
\* [0, 1]; with the default eps a row of constant 0.5 has u = 1 and is
\* marked at a threshold below 1, a row that is 1 at one step and 0
\* elsewhere has u near 0 and is not marked at 0.75, and an all-zero row has
\* a finite u.  Equalities are up to the rounding of the grid.
C11_EntropyAsStated ==
    ret.op = "entropy_indices" =>
        \A i \in 1..Len(ret.x.rows) :
            LET row == ret.x.rows[i]
                T == Len(row)
                u == ret.u[i]
                Const == \A k \in 1..T : row[k] = Scale \div 2
                OneHot == \E k \in 1..T :
                              \A j \in 1..T : row[j] = IF j = k THEN Scale ELSE 0
                Zero == \A k \in 1..T : row[k] = 0
            IN  /\ Abs(u - StatedU(row, ret.eps)) <= EntropyTol
                /\ ret.val[i] <=> u >= ret.threshold
                /\ u >= -EntropyTol
                /\ u <= Scale + EntropyTol
                /\ (Const /\ ret.eps = 0) =>
                      /\ Abs(u - Scale) <= EntropyTol
                      /\ ret.threshold <= Scale - EntropyTol => ret.val[i]
                /\ (OneHot /\ ret.eps = 0) =>
                      /\ Abs(u) <= EntropyTol
                      /\ ret.threshold = (3 * Scale) \div 4 => ~ret.val[i]
                /\ Zero => Abs(u) < Inf

\* sigmoid(x), computed without a large intermediate for negative x
StableSigmoid(x) ==
    IF x >= 0 THEN Div(Scale, Scale + Exp(-x)) ELSE Div(Exp(x), Scale + Exp(x))

\* what the grid's rounding may add to sigmoid(logit(y))
LogitTol == Scale \div 1024

\* C12 as stated: opacity_logit_at(t) is finite for every primitive and
\* every t, and wherever opacity_at(t) lies strictly between the clamp
\* bounds, sigmoid(opacity_logit_at(t)) is opacity_at(t) (up to rounding).
C12_LogitFinite ==
    (ret.op = "temporal_opacity_logit" /\ ret.out = "ok") =>
        LET y == squeeze(temporal_opacity(heap[ret.a], ret.t).val)
        IN  \A i \in 1..Len(ret.val.rows) :
                LET l == ret.val.rows[i][1]
                IN  /\ Abs(l) < Inf
                    /\ (0 < y[i] /\ y[i] < Scale) =>
                          Abs(StableSigmoid(l) - y[i]) <= LogitTol

\* the opacity of primitive i of set x at time t, as stated:
\* sigmoid(opacity_logit) * exp(-0.5 * ((t - time_center) / exp(log_duration))^2)
StatedOpacity(x, i, t) ==
    LET z == Div(t - x.p["times"].rows[i][1], Exp(x.p["durations"].rows[i][1]))
    IN  Mul(Sigmoid(x.p["opacities"].rows[i][1]), Exp(-(Square(z) \div 2)))

\* the checks of opacity_at that do not compare two times
OpacityInRange(x, i, t, v) ==
    LET peak == Sigmoid(x.p["opacities"].rows[i][1])
    IN  /\ v = StatedOpacity(x, i, t)
        /\ 0 <= v
        /\ v <= peak
        /\ t = x.p["times"].rows[i][1] => v = peak

\* C13 as stated: opacity_at(t) is sigmoid(opacity_logit) * exp(-0.5 * ((t -
\* time_center) / exp(log_duration))^2), lies in [0, peak], is peak at the
\* time centre, and is strictly smaller at every time farther from the
\* centre.
C13_StrictDecrease ==
    (ret.op = "temporal_opacity" /\ ret.out = "ok") =>
        LET x == heap[ret.a]
        IN  \A i \in 1..len(x) :
                LET v == ret.val.rows[i][1]
                    far == Abs(ret.t - x.p["times"].rows[i][1])
                IN  /\ OpacityInRange(x, i, ret.t, v)
                    /\ \A t2 \in OpacityTimes :
                          Abs(t2 - x.p["times"].rows[i][1]) > far =>
                              temporal_opacity(x, t2).val.rows[i][1] < v

\* C13: opacity_at(t) is sigmoid(opacity_logit) * exp(-0.5 * ((t -
\* time_center) / exp(log_duration))^2) in float32, lies in [0, peak], is
\* peak at the time centre, and is never larger at a time farther from the
\* centre (the decrease is not strict: far from the centre the value
\* underflows to 0 and stays 0).
C13_NonIncreasing ==
    (ret.op = "temporal_opacity" /\ ret.out = "ok") =>
        LET x == heap[ret.a]
        IN  \A i \in 1..len(x) :
                LET v == ret.val.rows[i][1]
                    far == Abs(ret.t - x.p["times"].rows[i][1])
                IN  /\ OpacityInRange(x, i, ret.t, v)
                    /\ \A t2 \in OpacityTimes :
                          Abs(t2 - x.p["times"].rows[i][1]) > far =>
                              temporal_opacity(x, t2).val.rows[i][1] <= v

\* opacity_at has returned 0 for a primitive of positive peak at a time 39
\* durations from its centre, where it is 0 at 19 durations as well, and
\* smaller than the peak
C13_Witness ==
    /\ ret.op = "temporal_opacity"
    /\ ret.out = "ok"
    /\ ret.t = 40 * Scale
    /\ \E i \in 1..len(heap[ret.a]) :
          /\ heap[ret.a].p["times"].rows[i] = <<Scale>>
          /\ heap[ret.a].p["durations"].rows[i] = <<0>>
          /\ Sigmoid(heap[ret.a].p["opacities"].rows[i][1]) > 0
          /\ ret.val.rows[i][1] = 0
          /\ temporal_opacity(heap[ret.a], 20 * Scale).val.rows[i][1] = 0
          /\ temporal_opacity(heap[ret.a], 3 * Scale).val.rows[i][1] > 0

====
